---- MODULE Spec2Model ----
(***************************************************************************)
(* Session coordinator of the meeting server: the room registry            *)
(* (models/roomModel.js), the socket <-> user maps and the socket.io       *)
(* handlers of server.js (join-room, disconnect and its grace timer, the   *)
(* delayed room-participants / user-joined emits), the HTTP join route and *)
(* the periodic sweep of empty rooms.                                      *)
(*                                                                         *)
(* Socket ids are 1..MaxSockets, handed out in connection order; 0 stands  *)
(* for "undefined".  A JavaScript Map is a function whose DOMAIN is the    *)
(* key set.  Every handler runs to completion (single-threaded event       *)
(* loop), so each handler and each timer callback is one action.           *)
(***************************************************************************)
EXTENDS Integers, Sequences, FiniteSets, TLC

\* ------------------------------------------------------------------ bounds
\* Connections ever opened during a run.
MaxSockets == 3
\* Room capacity.  The program sets 50 (Room.constructor); the model scales it
\* so that a full room is reachable with MaxSockets connections.
maxParticipants == 2
\* join-room requests whose delayed emits are still pending.
MaxPendingJoins == 1
\* Length a room's message history is cut to.  The program keeps 100
\* (Room.addMessage); the model scales it so that a full history is reachable.
MaxMessages == 2
\* chat-messages ever appended to one room.
MaxChats == 3

\* ------------------------------------------------------- program constants
RoomParticipantsDelay == 1000
UserJoinedDelay == 1500
GraceDelay == 5000

\* ------------------------------------------------------------------ inputs
Sockets == 1..MaxSockets
Users == {"a", "b"}
\* Room codes as clients spell them; "abc" and "ABC" differ only in case.
RawCodes == {"abc", "ABC"}

VARIABLES
    connected,         \* io.sockets.sockets: ids of the live sockets
    nextId,            \* id the next connection gets
    sockRooms,         \* socket.io adapter: socket id -> groups joined
    rooms,             \* roomModel.rooms: code -> Room
    participants,      \* roomModel.participants: socket id -> record
    socketToUser,      \* server.js socketToUser
    userToSocket,      \* server.js userToSocket
    userLastActivity,  \* server.js userLastActivity (its key set)
    timers,            \* pending setTimeout callbacks, in scheduling order
    out,               \* events emitted by the last handler, in order
    last,              \* which handler ran last, and what it decided
    refused            \* socket id -> the rooms it was a member of when its
                       \* latest join-room failed (no entry once it succeeds)

vars == <<connected, nextId, sockRooms, rooms, participants, socketToUser,
          userToSocket, userLastActivity, timers, out, last, refused>>

\* ----------------------------------------------------------------- helpers
MapSet(m, k, v) == [x \in (DOMAIN m) \cup {k} |-> IF x = k THEN v ELSE m[x]]

MapDelete(m, k) == [x \in (DOMAIN m) \ {k} |-> m[x]]

MapGet(m, k) == IF k \in DOMAIN m THEN m[k] ELSE 0

\* The id socket.io gives each socket; ids are mixed-case strings, and every
\* socket is subscribed to the group named by its own id.
SocketIds == <<"s1", "s2", "s3", "s4">>

Id(s) == SocketIds[s]

\* String.prototype.toUpperCase on the strings clients send as room codes.
Upper(code) ==
    IF code = "abc" THEN "ABC"
    ELSE IF \E i \in 1..Len(SocketIds) : code = SocketIds[i]
         THEN <<"S1", "S2", "S3", "S4">>[
                 CHOOSE i \in 1..Len(SocketIds) : code = SocketIds[i]]
         ELSE code

NoList == {}

Event(name, rcpt, group, sock, user, count, list) ==
    [name |-> name, rcpt |-> rcpt, group |-> group, socketId |-> sock,
     userEmail |-> user, count |-> count, list |-> list]

Timer(kind, sock, user, code, list) ==
    [kind |-> kind, sock |-> sock, user |-> user, code |-> code, list |-> list,
     stale |-> FALSE, rebound |-> FALSE, listed |-> FALSE, fresh |-> FALSE]

Last(op, sock, user, code) ==
    [op |-> op, sock |-> sock, user |-> user, code |-> code, ok |-> FALSE,
     fresh |-> FALSE, evicted |-> 0, removed |-> FALSE, rebound |-> FALSE,
     listed |-> FALSE, stale |-> FALSE, before |-> {}, to |-> 0]

\* ------------------------------------------------------------ the registry
\* new Room(code)
\* new Room(code).  appended is a history field: every message addMessage was
\* called with on this Room object, in call order.
NewRoom(code) ==
    [code |-> Upper(code), participants |-> {}, messages |-> <<>>,
     isActive |-> TRUE, appended |-> <<>>]

\* roomUtils.getRoom(code) is defined
HasRoom(rs, code) == Upper(code) \in DOMAIN rs

createRoomFresh(rs, code) == MapSet(rs, Upper(code), NewRoom(Upper(code)))

\* roomUtils.createRoom(code): the registry afterwards
createRoom(rs, code) ==
    IF Upper(code) \in DOMAIN rs THEN rs
    ELSE MapSet(rs, Upper(code), NewRoom(Upper(code)))

RoomIsFullOffByOne(room) == Cardinality(room.participants) > maxParticipants

\* the guard of Room.addParticipant
RoomIsFull(room) == Cardinality(room.participants) >= maxParticipants

addParticipantFullAdds(room, socketId) ==
    [room EXCEPT !.participants = @ \cup {socketId}]

\* Room.addParticipant when the guard throws: the room is as it was
addParticipantFull(room, socketId) == room

\* Room.addParticipant past the guard: the room afterwards
addParticipant(room, socketId) ==
    [room EXCEPT !.participants = @ \cup {socketId}]

removeParticipantKeeps(room, socketId) == room

\* Room.removeParticipant: the room afterwards
removeParticipant(room, socketId) ==
    LET left == room.participants \ {socketId}
    IN [room EXCEPT !.participants = left,
                    !.isActive = IF left = {} THEN FALSE ELSE @]

\* Room.removeParticipant: the Participant registry afterwards
removeParticipantRecord(parts, socketId) == MapDelete(parts, socketId)

\* Array.prototype.slice(-n)
SliceLast(seq, n) ==
    IF Len(seq) > n THEN SubSeq(seq, Len(seq) - n + 1, Len(seq)) ELSE seq

addMessageKeepsAll(room, message, senderEmail) ==
    LET messageObj == [message |-> message, senderEmail |-> senderEmail]
    IN [room EXCEPT !.messages = Append(@, messageObj),
                    !.appended = Append(@, messageObj)]

\* Room.addMessage: the room afterwards
addMessage(room, message, senderEmail) ==
    LET messageObj == [message |-> message, senderEmail |-> senderEmail]
        pushed == Append(room.messages, messageObj)
    IN [room EXCEPT !.messages = IF Len(pushed) > MaxMessages
                                 THEN SliceLast(pushed, MaxMessages)
                                 ELSE pushed,
                    !.appended = Append(@, messageObj)]

\* Array.from(room.participants).map(...): the roster of a member set
Roster(members, parts) ==
    {[socketId |-> id,
      userEmail |-> IF id \in DOMAIN parts THEN parts[id].userEmail
                    ELSE "Unknown"] : id \in members}

\* ------------------------------------------------------ socket.io delivery
\* io.to(group).emit: the live sockets subscribed to the group
IoTo(conn, sr, group) == {t \in conn : group \in sr[t]}

SocketToAll(conn, sr, s, group) == {t \in conn : group \in sr[t]}

\* socket.to(group).emit: the same, the emitting socket excluded
SocketTo(conn, sr, s, group) == {t \in conn : group \in sr[t]} \ {s}

SocketEmitNobody(conn, s) == {}

\* socket.emit: a packet to a closed socket is discarded
SocketEmit(conn, s) == {s} \cap conn

\* ------------------------------------------------------------------- Init
Init ==
    /\ connected = {}
    /\ nextId = 1
    /\ sockRooms = [s \in Sockets |-> {}]
    /\ rooms = <<>>
    /\ participants = <<>>
    /\ socketToUser = <<>>
    /\ userToSocket = <<>>
    /\ userLastActivity = {}
    /\ timers = <<>>
    /\ out = <<>>
    /\ last = Last("init", 0, "", "")
    /\ refused = <<>>


\* ------------------------------------------------------------------ timers
\* The delay a timer of each kind is scheduled with.
Delay(kind) ==
    IF kind = "rp" THEN RoomParticipantsDelay
    ELSE IF kind = "uj" THEN UserJoinedDelay
    ELSE GraceDelay

\* Node keeps one list per delay and runs a list's due timers in the order
\* they were scheduled.  Lists are picked by the expiry of their head, so a
\* timer waits for every timer scheduled no later with a smaller delay,
\* unless its own list is already being run (the previous callback was of the
\* same list): a late event loop then runs it ahead of shorter timers.
CanFire(i) ==
    LET t == timers[i]
    IN /\ \A j \in 1..(i - 1) : timers[j].kind # t.kind
       /\ \/ \A j \in 1..(i - 1) : Delay(timers[j].kind) > Delay(t.kind)
          \/ last.op = t.kind

RemoveAt(seq, i) == SubSeq(seq, 1, i - 1) \o SubSeq(seq, i + 1, Len(seq))

PendingJoins ==
    LET n(k) == Cardinality({i \in 1..Len(timers) : timers[i].kind = k})
    IN IF n("rp") > n("uj") THEN n("rp") ELSE n("uj")

\* ------------------------------------------------------------- connections
\* io.on("connection"): a new socket, in the group of its own id only, bound
\* to nobody
Connect ==
    /\ nextId <= MaxSockets
    /\ connected' = connected \cup {nextId}
    /\ nextId' = nextId + 1
    /\ sockRooms' = [sockRooms EXCEPT ![nextId] = {Id(nextId)}]
    /\ out' = <<>>
    /\ last' = Last("connect", nextId, "", "")
    /\ UNCHANGED <<rooms, participants, socketToUser, userToSocket,
                   userLastActivity, timers, refused>>

\* socket.on("disconnect"): the timers afterwards.  The socket has left its
\* groups and io.sockets.sockets before the handler runs.
OnDisconnect(s, stu, rs, tm) ==
    IF s \in DOMAIN stu /\ HasRoom(rs, stu[s].roomCode)
    THEN Append(tm, Timer("grace", s, stu[s].userEmail, stu[s].roomCode, NoList))
    ELSE tm

\* The transport of live socket s closes.
Disconnect(s) ==
    /\ s \in connected
    /\ connected' = connected \ {s}
    /\ sockRooms' = [sockRooms EXCEPT ![s] = {}]
    /\ timers' = OnDisconnect(s, socketToUser, rooms, timers)
    /\ out' = <<>>
    /\ last' = [Last("disconnect", s, "", "") EXCEPT
                   !.ok = (Len(timers') > Len(timers))]
    /\ UNCHANGED <<nextId, rooms, participants, socketToUser, userToSocket,
                   userLastActivity, refused>>

\* --------------------------------------------------------------- join-room
NeedsCleanupNever(existing, s) == FALSE

\* server.js: existingSocketId && existingSocketId !== socket.id
NeedsCleanup(existing, s) == existing # 0 /\ existing # s

JoinRoom(s, roomCode, userEmail) ==
    LET existing == MapGet(userToSocket, userEmail)
        cleanup  == NeedsCleanup(existing, s)
        kick     == cleanup /\ existing \in connected
        \* existingSocket.disconnect(true) runs its disconnect handler now
        conn1 == IF kick THEN connected \ {existing} ELSE connected
        sr1   == IF kick THEN [sockRooms EXCEPT ![existing] = {}] ELSE sockRooms
        tm1   == IF kick THEN OnDisconnect(existing, socketToUser, rooms, timers)
                 ELSE timers
        stu1  == IF cleanup THEN MapDelete(socketToUser, existing) ELSE socketToUser
        uts1  == IF cleanup THEN MapDelete(userToSocket, userEmail) ELSE userToSocket
        \* socket.join(roomCode) and the new binding
        sr2   == [sr1 EXCEPT ![s] = @ \cup {roomCode}]
        stu2  == MapSet(stu1, s, [userEmail |-> userEmail, roomCode |-> roomCode])
        uts2  == MapSet(uts1, userEmail, s)
        \* a pending grace timer of another socket of this user is superseded
        tm2   == [i \in 1..Len(tm1) |->
                    IF tm1[i].kind = "grace" /\ tm1[i].user = userEmail
                       /\ tm1[i].sock # s
                    THEN [tm1[i] EXCEPT !.rebound = TRUE] ELSE tm1[i]]
        \* get or create room
        existed == HasRoom(rooms, roomCode)
        rs1   == createRoom(rooms, roomCode)
        R     == Upper(roomCode)
        room  == rs1[R]
        full  == RoomIsFull(room)
        room2 == addParticipant(room, s)
        parts2 == MapSet(participants, s, [userEmail |-> userEmail, roomCode |-> room.code])
        roomParticipants == Roster(room2.participants \ {s}, parts2)
        info  == [Last("join", s, userEmail, roomCode) EXCEPT
                     !.fresh = ~existed,
                     !.evicted = IF cleanup THEN existing ELSE 0,
                     !.before = room.participants]
    IN /\ s \in connected
       /\ PendingJoins < MaxPendingJoins
       /\ connected' = conn1
       /\ sockRooms' = sr2
       /\ socketToUser' = stu2
       /\ userToSocket' = uts2
       /\ userLastActivity' = userLastActivity \cup {userEmail}
       /\ nextId' = nextId
       /\ IF full
          THEN \* addParticipant throws; the catch reports to the caller
               /\ rooms' = [rs1 EXCEPT ![R] = addParticipantFull(room, s)]
               /\ participants' = participants
               /\ timers' = tm2
               /\ refused' = MapSet(refused, s,
                                {c \in DOMAIN rs1 : s \in rs1[c].participants})
               /\ out' = <<Event("error", SocketEmit(conn1, s), "", s, "", 0, NoList)>>
               /\ last' = info
          ELSE /\ rooms' = [rs1 EXCEPT ![R] = room2]
               /\ participants' = parts2
               /\ timers' = tm2 \o
                    <<[Timer("rp", s, userEmail, roomCode, roomParticipants)
                          EXCEPT !.fresh = ~existed],
                      [Timer("uj", s, userEmail, roomCode, roomParticipants)
                          EXCEPT !.fresh = ~existed]>>
               /\ refused' = MapDelete(refused, s)
               /\ out' = <<Event("participants-update", IoTo(conn1, sr2, roomCode),
                                 roomCode, 0, "", Cardinality(room2.participants),
                                 Roster(room2.participants, parts2))>>
               /\ last' = [info EXCEPT !.ok = TRUE]

\* setTimeout(..., 1000): socket.emit("room-participants", roomParticipants)
RoomParticipantsTimer(i) ==
    LET t == timers[i]
        rcpt == SocketEmit(connected, t.sock)
        \* the user-joined timer of the same join is the next one scheduled
        mark == [j \in 1..Len(timers) |->
                   IF j > i /\ timers[j].kind = "uj" /\ timers[j].sock = t.sock
                      /\ \A k \in (i + 1)..(j - 1) :
                            ~(timers[k].kind = "uj" /\ timers[k].sock = t.sock)
                   THEN [timers[j] EXCEPT !.listed = (rcpt # {})]
                   ELSE timers[j]]
    IN /\ i \in 1..Len(timers)
       /\ t.kind = "rp"
       /\ CanFire(i)
       /\ timers' = RemoveAt(mark, i)
       /\ out' = <<Event("room-participants", rcpt, "", t.sock, t.user, 0, t.list)>>
       /\ last' = [Last("rp", t.sock, t.user, t.code) EXCEPT
                      !.fresh = t.fresh, !.before = {e.socketId : e \in t.list}]
       /\ UNCHANGED <<connected, nextId, sockRooms, rooms, participants,
                      socketToUser, userToSocket, userLastActivity, refused>>

\* setTimeout(..., 1500): socket.to(roomCode).emit("user-joined", ...)
UserJoinedTimer(i) ==
    LET t == timers[i]
    IN /\ i \in 1..Len(timers)
       /\ t.kind = "uj"
       /\ CanFire(i)
       /\ timers' = RemoveAt(timers, i)
       /\ out' = <<Event("user-joined", SocketTo(connected, sockRooms, t.sock, t.code),
                         t.code, t.sock, t.user, 0, NoList)>>
       /\ last' = [Last("uj", t.sock, t.user, t.code) EXCEPT
                      !.listed = t.listed, !.fresh = t.fresh,
                      !.before = {e.socketId : e \in t.list}]
       /\ UNCHANGED <<connected, nextId, sockRooms, rooms, participants,
                      socketToUser, userToSocket, userLastActivity, refused>>

\* ------------------------------------------------------------- grace timer
StillBoundNoRecheck(uts, userEmail, socketId) == TRUE

StillBoundToAnyone(uts, userEmail, socketId) == userEmail \in DOMAIN uts

\* server.js: userToSocket.get(userEmail) === socket.id
StillBound(uts, userEmail, socketId) == MapGet(uts, userEmail) = socketId

\* setTimeout(..., 5000) of the disconnect handler.  t.stale says that the
\* Room object the callback holds was deleted from the registry meanwhile;
\* such an object is empty and inactive, and nothing else refers to it.
GraceTimer(i) ==
    LET t == timers[i]
        R == Upper(t.code)
        room2 == IF t.stale THEN removeParticipant(NewRoom(R), t.sock)
                 ELSE removeParticipant(rooms[R], t.sock)
        parts2 == removeParticipantRecord(participants, t.sock)
        remainingCount == Cardinality(room2.participants)
        info == [Last("grace", t.sock, t.user, t.code) EXCEPT
                    !.rebound = t.rebound, !.stale = t.stale,
                    !.before = IF HasRoom(rooms, t.code)
                               THEN rooms[R].participants ELSE {}]
    IN /\ i \in 1..Len(timers)
       /\ t.kind = "grace"
       /\ CanFire(i)
       /\ timers' = RemoveAt(timers, i)
       /\ IF StillBound(userToSocket, t.user, t.sock)
          THEN /\ rooms' = IF t.stale THEN rooms ELSE [rooms EXCEPT ![R] = room2]
               /\ participants' = parts2
               /\ out' = <<Event("user-left",
                                 SocketTo(connected, sockRooms, t.sock, t.code),
                                 t.code, t.sock, t.user, 0, NoList),
                           Event("participants-update",
                                 IoTo(connected, sockRooms, t.code),
                                 t.code, 0, "", remainingCount,
                                 Roster(room2.participants, parts2))>>
               /\ socketToUser' = MapDelete(socketToUser, t.sock)
               /\ userToSocket' = MapDelete(userToSocket, t.user)
               /\ userLastActivity' = userLastActivity \ {t.user}
               /\ last' = [info EXCEPT !.removed = TRUE]
          ELSE /\ out' = <<>>
               /\ last' = info
               /\ UNCHANGED <<rooms, participants, socketToUser, userToSocket,
                              userLastActivity>>
       /\ UNCHANGED <<connected, nextId, sockRooms, refused>>

\* ------------------------------------------------- HTTP route and janitor
\* app.get("/join/:email/:code"): get or create the room.  A request for a
\* room that exists finds it and changes nothing, so only the creating
\* request is a step.
HttpJoin(code) ==
    /\ ~HasRoom(rooms, code)
    /\ rooms' = createRoom(rooms, Upper(code))
    /\ out' = <<>>
    /\ last' = Last("http", 0, "", code)
    /\ UNCHANGED <<connected, nextId, sockRooms, participants, socketToUser,
                   userToSocket, userLastActivity, timers, refused>>

SweepableEmpty(rs) == {c \in DOMAIN rs : rs[c].participants = {}}

\* the codes roomUtils.cleanupEmptyRooms deletes
Sweepable(rs) == {c \in DOMAIN rs : rs[c].participants = {} /\ ~rs[c].isActive}

\* setInterval(cleanupEmptyRooms, 5 min)
CleanupEmptyRooms ==
    LET gone == Sweepable(rooms)
    IN /\ gone # {}
       /\ rooms' = [c \in (DOMAIN rooms) \ gone |-> rooms[c]]
       /\ timers' = [i \in 1..Len(timers) |->
                       IF timers[i].kind = "grace" /\ Upper(timers[i].code) \in gone
                       THEN [timers[i] EXCEPT !.stale = TRUE] ELSE timers[i]]
       /\ out' = <<>>
       /\ last' = Last("sweep", 0, "", "")
       /\ UNCHANGED <<connected, nextId, sockRooms, participants, socketToUser,
                      userToSocket, userLastActivity, refused>>

\* ------------------------------------------------------ messaging handlers
\* socket.on("private-message"): recipientEmail is looked up in userToSocket;
\* senderEmail is taken from the payload.
PrivateMessage(s, senderEmail, recipientEmail) ==
    LET recipientSocketId == MapGet(userToSocket, recipientEmail)
    IN /\ s \in connected
       /\ out' = IF recipientSocketId # 0
                 THEN <<Event("private-message",
                              SocketTo(connected, sockRooms, s, Id(recipientSocketId)),
                              Id(recipientSocketId), s, senderEmail, 0, NoList),
                        Event("private-message", SocketEmit(connected, s),
                              "", s, senderEmail, 0, NoList)>>
                 ELSE <<Event("error", SocketEmit(connected, s), "", s, "", 0,
                              NoList)>>
       /\ last' = [Last("pm", s, recipientEmail, "") EXCEPT
                      !.ok = (recipientSocketId # 0), !.to = recipientSocketId]
       /\ UNCHANGED <<connected, nextId, sockRooms, rooms, participants,
                      socketToUser, userToSocket, userLastActivity, timers,
                      refused>>

\* socket.on("chat-message"): the room is looked up by the payload's
\* roomCode, and senderEmail is taken from the payload.
ChatMessage(s, message, senderEmail, roomCode) ==
    LET R == Upper(roomCode)
        messageObj == [message |-> message, senderEmail |-> senderEmail]
    IN /\ s \in connected
       /\ HasRoom(rooms, roomCode) => Len(rooms[R].appended) < MaxChats
       /\ IF HasRoom(rooms, roomCode)
          THEN /\ rooms' = [rooms EXCEPT
                               ![R] = addMessage(@, message, senderEmail)]
               /\ out' = <<Event("chat-message",
                                 IoTo(connected, sockRooms, roomCode),
                                 roomCode, s, senderEmail, 0, {messageObj})>>
          ELSE /\ rooms' = rooms
               /\ out' = <<>>
       /\ last' = [Last("chat", s, senderEmail, roomCode) EXCEPT
                      !.ok = HasRoom(rooms, roomCode)]
       /\ UNCHANGED <<connected, nextId, sockRooms, participants,
                      socketToUser, userToSocket, userLastActivity, timers,
                      refused>>

\* sender?.userEmail
FromUser(stu, s) == IF s \in DOMAIN stu THEN stu[s].userEmail ELSE "undefined"

\* socket.on("offer" / "answer" / "ice-candidate"): socket.to(to).emit(name)
Signal(name, s, to) ==
    /\ s \in connected
    /\ out' = <<Event(name, SocketTo(connected, sockRooms, s, to), to, s,
                      FromUser(socketToUser, s), 0, NoList)>>
    /\ last' = Last(name, s, FromUser(socketToUser, s), to)
    /\ UNCHANGED <<connected, nextId, sockRooms, rooms, participants,
                   socketToUser, userToSocket, userLastActivity, timers,
                   refused>>

Offer(s, to) == Signal("offer", s, to)

Answer(s, to) == Signal("answer", s, to)

IceCandidate(s, to) == Signal("ice-candidate", s, to)

\* socket.on("media-state-change" / "screen-share-*" / "recording-*"): a
\* bound socket broadcasts to the group named by the payload's roomCode.
Presence(name, s, roomCode) ==
    /\ s \in connected
    /\ out' = IF s \in DOMAIN socketToUser
              THEN <<Event(name, SocketTo(connected, sockRooms, s, roomCode),
                           roomCode, s, socketToUser[s].userEmail, 0, NoList)>>
              ELSE <<>>
    /\ last' = [Last(name, s, FromUser(socketToUser, s), roomCode) EXCEPT
                   !.ok = (s \in DOMAIN socketToUser)]
    /\ UNCHANGED <<connected, nextId, sockRooms, rooms, participants,
                   socketToUser, userToSocket, userLastActivity, timers,
                   refused>>

MediaStateChange(s, roomCode) == Presence("user-media-state-changed", s, roomCode)

ScreenShareStart(s, roomCode) == Presence("user-screen-share-started", s, roomCode)

ScreenShareStop(s, roomCode) == Presence("user-screen-share-stopped", s, roomCode)

RecordingStarted(s, roomCode) == Presence("user-recording-started", s, roomCode)

RecordingStopped(s, roomCode) == Presence("user-recording-stopped", s, roomCode)

\* ------------------------------------------------------------------- Next
Next ==
    \/ Connect
    \/ \E s \in Sockets : Disconnect(s)
    \/ \E s \in Sockets, c \in RawCodes, u \in Users : JoinRoom(s, c, u)
    \/ \E i \in 1..Len(timers) : RoomParticipantsTimer(i)
    \/ \E i \in 1..Len(timers) : UserJoinedTimer(i)
    \/ \E i \in 1..Len(timers) : GraceTimer(i)
    \/ \E c \in RawCodes : HttpJoin(c)
    \/ CleanupEmptyRooms

Spec == Init /\ [][Next]_vars

\* ------------------------------------------------- the messaging handlers
\* The messaging handlers change nothing but what they emit, so they are
\* explored from a smaller world: the first connection has come and gone
\* before anybody joined (its id stays a name clients can send), and clients
\* may send that id where a room code is expected.
MsgCodes == {"ABC", Id(1)}

Handles == {Id(t) : t \in Sockets}

PresenceNames ==
    {"user-media-state-changed", "user-screen-share-started",
     "user-screen-share-stopped", "user-recording-started",
     "user-recording-stopped"}

SignalNames == {"offer", "answer", "ice-candidate"}

InitMsg ==
    /\ connected = {}
    /\ nextId = 2
    /\ sockRooms = [s \in Sockets |-> {}]
    /\ rooms = <<>>
    /\ participants = <<>>
    /\ socketToUser = <<>>
    /\ userToSocket = <<>>
    /\ userLastActivity = {}
    /\ timers = <<>>
    /\ out = <<>>
    /\ last = Last("disconnect", 1, "", "")
    /\ refused = <<>>

NextMsg ==
    \/ Connect
    \/ \E s \in Sockets : Disconnect(s)
    \/ \E s \in Sockets, c \in MsgCodes, u \in Users : JoinRoom(s, c, u)
    \/ \E i \in 1..Len(timers) : RoomParticipantsTimer(i)
    \/ \E i \in 1..Len(timers) : UserJoinedTimer(i)
    \/ \E i \in 1..Len(timers) : GraceTimer(i)
    \/ CleanupEmptyRooms
    \/ \E s \in Sockets, u, v \in Users : PrivateMessage(s, u, v)
    \/ \E s \in Sockets, to \in Handles : Offer(s, to)
    \/ \E s \in Sockets, to \in Handles : Answer(s, to)
    \/ \E s \in Sockets, to \in Handles : IceCandidate(s, to)
    \/ \E s \in Sockets, c \in MsgCodes : MediaStateChange(s, c)
    \/ \E s \in Sockets, c \in MsgCodes : ScreenShareStart(s, c)
    \/ \E s \in Sockets, c \in MsgCodes : ScreenShareStop(s, c)
    \/ \E s \in Sockets, c \in MsgCodes : RecordingStarted(s, c)
    \/ \E s \in Sockets, c \in MsgCodes : RecordingStopped(s, c)

SpecMsg == InitMsg /\ [][NextMsg]_vars

\* ------------------------------------------------------------- group chat
\* Message texts clients send.
Bodies == {"x", "y"}

\* The history of one room, filled by connections that never join: every
\* sequence of up to MaxChats messages over Bodies and Users is appended.
NextHistory ==
    \/ Connect
    \/ \E c \in RawCodes : HttpJoin(c)
    \/ \E s \in Sockets, m \in Bodies, u \in Users, c \in RawCodes :
          ChatMessage(s, m, u, c)

SpecHistory == Init /\ [][NextHistory]_vars

\* Chat among connections that join and leave; the handler never looks
\* inside message and senderEmail, so one text and one sender name do.
NextChat ==
    \/ Connect
    \/ \E s \in Sockets : Disconnect(s)
    \/ \E s \in Sockets, c \in MsgCodes, u \in Users : JoinRoom(s, c, u)
    \/ \E i \in 1..Len(timers) : RoomParticipantsTimer(i)
    \/ \E i \in 1..Len(timers) : UserJoinedTimer(i)
    \/ \E i \in 1..Len(timers) : GraceTimer(i)
    \/ CleanupEmptyRooms
    \/ \E s \in Sockets, c \in MsgCodes : ChatMessage(s, "x", "a", c)
    \/ \E c \in MsgCodes : HttpJoin(c)

SpecChat == InitMsg /\ [][NextChat]_vars

\* ------------------------------------------- reconnects across two rooms
\* MaxSockets connections that all present the same identity, and two room
\* codes: every join-room after the first finds the identity bound.
NextRooms ==
    \/ Connect
    \/ \E s \in Sockets : Disconnect(s)
    \/ \E s \in Sockets, c \in MsgCodes : JoinRoom(s, c, "a")
    \/ \E i \in 1..Len(timers) : RoomParticipantsTimer(i)
    \/ \E i \in 1..Len(timers) : UserJoinedTimer(i)
    \/ \E i \in 1..Len(timers) : GraceTimer(i)
    \/ CleanupEmptyRooms

SpecRooms == Init /\ [][NextRooms]_vars

\* ------------------------------------------------------ timers that fire
\* Node runs every due setTimeout callback and the setInterval of the sweep
\* again and again: each kind of callback is weakly fair.  Clients are under
\* no obligation to connect, join or leave.  The world is the small one of
\* the messaging handlers, with the actions of Next.
Fairness ==
    /\ WF_vars(\E i \in 1..Len(timers) : RoomParticipantsTimer(i))
    /\ WF_vars(\E i \in 1..Len(timers) : UserJoinedTimer(i))
    /\ WF_vars(\E i \in 1..Len(timers) : GraceTimer(i))
    /\ WF_vars(CleanupEmptyRooms)

SpecFair == InitMsg /\ [][Next]_vars /\ Fairness


\* ============================================================== properties
Events == {out[i] : i \in 1..Len(out)}

Updates == {e \in Events : e.name = "participants-update"}

\* the identity a member is recorded under in the Participant registry
Identity(c) == IF c \in DOMAIN participants THEN participants[c].userEmail
               ELSE "Unknown"

Dead(c) == c < nextId /\ c \notin connected

\* C1: no room's member set, and no participants-update roster, holds two
\* connection handles recorded under the same identity.
C1_NoDuplicateIdentity ==
    /\ \A R \in DOMAIN rooms : \A c1, c2 \in rooms[R].participants :
          c1 # c2 => Identity(c1) # Identity(c2)
    /\ \A e \in Updates : \A x, y \in e.list :
          x # y => x.userEmail # y.userEmail

\* C2: the grace timer of a connection whose identity was bound to another
\* connection after the disconnect emits nothing (no user-left, no
\* participants-update) and removes nobody, whenever it fires.
C2_ReboundTimerSilent ==
    (last.op = "grace" /\ last.rebound) => (out = <<>> /\ ~last.removed)

\* a superseded grace timer has fired while its socket was still a member
C2_Witness ==
    /\ last.op = "grace" /\ last.rebound
    /\ last.sock \in last.before

\* C3, first sentence: at most one connection is bound to an identity in
\* socketToUser.
C3_AtMostOne ==
    \A c1, c2 \in DOMAIN socketToUser :
        socketToUser[c1].userEmail = socketToUser[c2].userEmail => c1 = c2

\* C3, second sentence: a join-room of connection s under identity u leaves
\* every other connection that was bound to u disconnected and without a
\* socketToUser entry.
C3_EvictStep ==
    \A c \in DOMAIN socketToUser :
        (/\ last'.op = "join"
         /\ c # last'.sock
         /\ socketToUser[c].userEmail = last'.user)
        => (c \notin connected' /\ c \notin DOMAIN socketToUser')

\* C3: at most one connection per identity, and a join evicts the earlier
\* connection of its identity.
C3_OneConnectionPerIdentity == []C3_AtMostOne /\ [][C3_EvictStep]_vars

\* a join has evicted a connection that was live and bound to its identity
C3_Witness ==
    /\ last.op = "join" /\ last.evicted # 0
    /\ Dead(last.evicted)
    /\ userToSocket[last.user] = last.sock
    /\ \E i \in 1..Len(timers) :
          timers[i].kind = "grace" /\ timers[i].sock = last.evicted
             /\ timers[i].user = last.user

\* C4, first sentence: no member set exceeds the capacity.
C4_WithinCapacity ==
    \A R \in DOMAIN rooms : Cardinality(rooms[R].participants) <= maxParticipants

\* C4, second sentence: a join-room whose room is at capacity fails with the
\* error event and leaves the member set and the Participant registry alone.
C4_FullStep ==
    LET R == Upper(last'.code)
    IN (/\ last'.op = "join"
        /\ R \in DOMAIN rooms
        /\ Cardinality(rooms[R].participants) >= maxParticipants)
       => (/\ ~last'.ok
           /\ rooms'[R].participants = rooms[R].participants
           /\ participants' = participants
           /\ \E e \in {out'[i] : i \in 1..Len(out')} : e.name = "error")

\* C4: every member set stays within the capacity, and adding to a room at
\* capacity fails without changing membership or the Participant registry.
C4_Capacity == []C4_WithinCapacity /\ [][C4_FullStep]_vars

\* a join-room was refused by a room holding maxParticipants members
C4_Witness ==
    /\ last.op = "join" /\ ~last.ok
    /\ Cardinality(rooms[Upper(last.code)].participants) = maxParticipants
    /\ last.sock \notin rooms[Upper(last.code)].participants


IsJoinTimer(t) == t.kind \in {"rp", "uj"}

\* C5 as stated: a refused join-room emits the error event to the caller and
\* nothing else, and a connection whose latest join-room was refused is in
\* the roster of no participants-update.
C5_RefusedNeverListed ==
    /\ (last.op = "join" /\ ~last.ok) =>
          out = <<Event("error", {last.sock}, "", last.sock, "", 0, NoList)>>
    /\ \A e \in Updates : \A x \in e.list : x.socketId \notin DOMAIN refused

\* a connection whose latest join-room was refused is listed only in rosters
\* of rooms it was a member of before that join-room
C5_RefusedNotAdded ==
    \A e \in Updates : \A x \in e.list :
        x.socketId \in DOMAIN refused => Upper(e.group) \in refused[x.socketId]

\* a refused join-room changes no member set, emits the error event to the
\* caller and nothing else, and schedules no room-participants / user-joined
C5_RefusedStep ==
    (last'.op = "join" /\ ~last'.ok) =>
        /\ \A R \in DOMAIN rooms :
              R \in DOMAIN rooms' /\ rooms'[R].participants = rooms[R].participants
        /\ Cardinality(rooms'[Upper(last'.code)].participants) = maxParticipants
        /\ out' = <<Event("error", {last'.sock}, "", last'.sock, "", 0, NoList)>>
        /\ SelectSeq(timers', IsJoinTimer) = SelectSeq(timers, IsJoinTimer)

\* C5 (amended): a join-room for a room at capacity fails, changes no member
\* set, sends the caller an error event and emits nothing else for that
\* join; the connection is in the roster of a later participants-update only
\* if it was already a member of that room or joins successfully later.
C5_RefusedJoin == []C5_RefusedNotAdded /\ [][C5_RefusedStep]_vars

\* a participants-update goes out while a refused connection that was never
\* a member is live
C5_Witness ==
    /\ Updates # {}
    /\ \E c \in DOMAIN refused : refused[c] = {} /\ c \in connected

\* C6: whenever userToSocket maps u to c, socketToUser maps c to u.
C6_MapsInLockstep ==
    \A u \in DOMAIN userToSocket :
        /\ userToSocket[u] \in DOMAIN socketToUser
        /\ socketToUser[userToSocket[u]].userEmail = u

\* C7, first sentence: a disconnected connection stays in every member set
\* it is in, and no user-left names it, in every step that is not the firing
\* of its own grace timer.
C7_Keep ==
    \A c \in Sockets :
        (/\ c < nextId' /\ c \notin connected'
         /\ ~(last'.op = "grace" /\ last'.sock = c))
        => /\ \A R \in DOMAIN rooms :
                 c \in rooms[R].participants
                    => R \in DOMAIN rooms' /\ c \in rooms'[R].participants
           /\ \A i \in 1..Len(out') :
                 ~(out'[i].name = "user-left" /\ out'[i].socketId = c)

\* C7, second sentence: a grace timer that finds its identity still bound to
\* its connection removes the connection from the room, emits user-left and
\* then participants-update (count and roster of the room after the removal)
\* to the room's group, and erases both map entries and the timestamp.
C7_Finalize ==
    LET c == last'.sock
        u == last'.user
        R == Upper(last'.code)
    IN (last'.op = "grace" /\ MapGet(userToSocket, u) = c) =>
        /\ last'.removed
        /\ R \in DOMAIN rooms' => c \notin rooms'[R].participants
        /\ Len(out') = 2
        /\ out'[1] = Event("user-left",
                           {t \in connected : last'.code \in sockRooms[t]} \ {c},
                           last'.code, c, u, 0, NoList)
        /\ out'[2].name = "participants-update"
        /\ out'[2].group = last'.code
        /\ out'[2].rcpt = {t \in connected : last'.code \in sockRooms[t]}
        /\ out'[2].count = Cardinality(out'[2].list)
        /\ ~last'.stale =>
              /\ out'[2].count = Cardinality(rooms'[R].participants)
              /\ out'[2].list = Roster(rooms'[R].participants, participants')
        /\ c \notin DOMAIN socketToUser'
        /\ u \notin DOMAIN userToSocket'
        /\ u \notin userLastActivity'

C8_ListThenJoined ==
    /\ (last.op = "rp" /\ last.before # {} /\ last.sock \in connected)
          => out[1].rcpt = {last.sock}
    /\ (last.op = "uj" /\ last.before # {}) =>
          /\ (last.before \cap connected) \subseteq out[1].rcpt
          /\ out[1].rcpt # {} => last.listed

\* C9: the participants-update of a successful join-room is delivered to
\* every live connection in the room's member set.
C9_UpdateReachesMembers ==
    (last.op = "join" /\ last.ok) =>
        (rooms[Upper(last.code)].participants \cap connected) \subseteq out[1].rcpt

\* C10: a join-room for a code that is not in the registry leaves a room
\* whose member set is exactly the caller, and no user-joined or user-left
\* is delivered to the connection it is about.
C10_CreatorAlone ==
    /\ (last.op = "join" /\ last.fresh) =>
          /\ last.ok
          /\ rooms[Upper(last.code)].participants = {last.sock}
    /\ \A e \in Events :
          e.name \in {"user-joined", "user-left"} => e.socketId \notin e.rcpt

\* the user-joined of a room's creator is emitted while the creator is live
\* and subscribed to the group it goes to
C10_Witness ==
    /\ last.op = "uj" /\ last.fresh
    /\ last.sock \in connected
    /\ last.code \in sockRooms[last.sock]

\* the events the step under way emits
EventsNext == {out'[i] : i \in 1..Len(out')}

\* C11, as a step: a private-message whose recipient identity has no entry
\* in userToSocket sends the error event to the sender and nothing else, and
\* leaves the registry and both identity maps as they were.
C11_Step ==
    (last'.op = "pm" /\ last'.user \notin DOMAIN userToSocket) =>
        /\ out' = <<Event("error", {last'.sock}, "", last'.sock, "", 0, NoList)>>
        /\ \A e \in EventsNext : e.name # "private-message"
        /\ UNCHANGED <<rooms, participants, socketToUser, userToSocket,
                       userLastActivity>>

\* C11: a private-message to an identity without a binding is answered with
\* an error event to the sender; no private-message is delivered to anyone,
\* the sender included, and the room registry and the identity maps do not
\* change.
C11_UnboundRecipient == [][C11_Step]_vars

\* a bound member of a room has written to an identity nobody is bound to
C11_Witness ==
    /\ last.op = "pm" /\ ~last.ok
    /\ last.user \notin DOMAIN userToSocket
    /\ last.sock \in DOMAIN socketToUser
    /\ \E R \in DOMAIN rooms : last.sock \in rooms[R].participants

\* C12: a private-message to an identity with a binding is delivered to the
\* connection bound to that identity and echoed to the sender; a sender that
\* receives the echo knows the message reached the recipient's connection
\* (the echo itself when the sender wrote to its own identity).
C12_EchoMeansDelivered ==
    (last.op = "pm" /\ last.ok) =>
        /\ Len(out) = 2
        /\ out[2].rcpt = {last.sock}
        /\ last.to \in (out[1].rcpt \cup out[2].rcpt)

Min(x, y) == IF x < y THEN x ELSE y

\* the last k entries of seq, in order
LastK(seq, k) == [i \in 1..k |-> seq[Len(seq) - k + i]]

\* C13, first part: every history has at most MaxMessages entries and is the
\* last min(n, MaxMessages) of the n messages appended to the room, in
\* append order.
C13_LastAppended ==
    \A R \in DOMAIN rooms :
        /\ Len(rooms[R].messages) <= MaxMessages
        /\ rooms[R].messages =
              LastK(rooms[R].appended, Min(Len(rooms[R].appended), MaxMessages))

\* C13, last part: appending to a history of MaxMessages entries drops the
\* oldest entry and nothing else.
C13_DropOldest ==
    LET R == Upper(last'.code)
    IN (/\ last'.op = "chat" /\ R \in DOMAIN rooms
        /\ Len(rooms[R].messages) = MaxMessages)
       => /\ Len(rooms'[R].messages) = MaxMessages
          /\ SubSeq(rooms'[R].messages, 1, MaxMessages - 1) = Tail(rooms[R].messages)
          /\ {rooms'[R].messages[MaxMessages]} = out'[1].list

\* C13: the history is the last min(n, MaxMessages) appended messages, and
\* an append to a full history drops exactly the oldest.
C13_History == []C13_LastAppended /\ [][C13_DropOldest]_vars

\* more messages than the history keeps were appended, and the entries kept
\* differ from each other and from the one dropped
C13_Witness ==
    \E R \in DOMAIN rooms :
        /\ Len(rooms[R].appended) > MaxMessages
        /\ rooms[R].appended[1] # rooms[R].messages[1]
        /\ rooms[R].messages[1] # rooms[R].messages[MaxMessages]

\* C14, the registry: rooms are keyed by their upper-case code, so no two
\* rooms have codes that are equal ignoring case.
C14_OneRoomPerCode ==
    \A R1 \in DOMAIN rooms :
        /\ rooms[R1].code = R1
        /\ \A R2 \in DOMAIN rooms : Upper(R1) = Upper(R2) => R1 = R2

\* C14, the second call: createRoom with a code that is equal ignoring case
\* to the code of an earlier createRoom, or of a room in the registry,
\* changes nothing.
C14_SecondCall ==
    \A c1, c2 \in MsgCodes \cup RawCodes :
        Upper(c1) = Upper(c2) =>
            /\ createRoom(createRoom(rooms, c1), c2) = createRoom(rooms, c1)
            /\ HasRoom(rooms, c1) => createRoom(rooms, c2) = rooms

\* C14, the handlers: a join-room or HTTP join whose room exists under any
\* spelling adds no room and leaves that room's history and its other
\* members as they were.
C14_Step ==
    LET R == Upper(last'.code)
    IN (last'.op \in {"join", "http"} /\ R \in DOMAIN rooms) =>
        /\ DOMAIN rooms' = DOMAIN rooms
        /\ \A Q \in DOMAIN rooms : Q # R => rooms'[Q] = rooms[Q]
        /\ rooms'[R].messages = rooms[R].messages
        /\ rooms'[R].appended = rooms[R].appended
        /\ rooms[R].participants \subseteq rooms'[R].participants
        /\ rooms'[R].participants \subseteq rooms[R].participants \cup {last'.sock}

\* C14: get-or-create is idempotent up to letter case.
C14_GetOrCreate ==
    [](C14_OneRoomPerCode /\ C14_SecondCall) /\ [][C14_Step]_vars

\* a join-room spelled differently from the key of its room found the room
\* with a member and a message in it
C14_Witness ==
    /\ last.op = "join" /\ ~last.fresh /\ last.ok
    /\ last.code # Upper(last.code)
    /\ last.before # {} /\ last.sock \notin last.before
    /\ rooms[Upper(last.code)].messages # <<>>

\* the connection a handle names
Handle(id) == CHOOSE t \in Sockets : Id(t) = id

\* C15: an offer, answer or ice-candidate of connection c naming handle t is
\* delivered to connection t if it is live, and to nobody else; it carries
\* from = c and fromUser = the identity bound to c; no error event is
\* emitted.
C15_TargetOnly ==
    (last.op \in SignalNames) =>
        /\ Len(out) = 1
        /\ out[1].name = last.op
        /\ out[1].rcpt = {Handle(last.code)} \cap connected
        /\ out[1].socketId = last.sock
        /\ out[1].userEmail = FromUser(socketToUser, last.sock)

\* C16, as a step: a chat-message of a bound connection is appended to the
\* history of the room of its binding and changes no other room, and is
\* delivered to every live member of that room and to the sender.
C16_Step ==
    LET s == last'.sock
        B == Upper(socketToUser[s].roomCode)
    IN (last'.op = "chat" /\ s \in DOMAIN socketToUser /\ B \in DOMAIN rooms) =>
        /\ \A Q \in DOMAIN rooms : Q # B => rooms'[Q] = rooms[Q]
        /\ Len(rooms'[B].appended) = Len(rooms[B].appended) + 1
        /\ Len(out') = 1
        /\ out'[1].list = {rooms'[B].messages[Len(rooms'[B].messages)]}
        /\ ((rooms[B].participants \cap connected) \cup {s}) \subseteq out'[1].rcpt

\* C16: a chat-message goes into the history of the sender's room only and
\* reaches every member of that room, the sender included.
C16_ChatInOwnRoom == [][C16_Step]_vars

\* the live members of the room connection s is bound to
RoomMates(s) ==
    LET B == Upper(socketToUser[s].roomCode)
    IN IF B \in DOMAIN rooms THEN rooms[B].participants \cap connected ELSE {}

\* C17: a media-state, screen-share or recording event of a bound connection
\* is delivered to exactly the other live members of the room of its
\* binding; the event of a connection without a binding is delivered to
\* nobody.
C17_RoomMatesOnly ==
    (last.op \in PresenceNames) =>
        IF last.sock \in DOMAIN socketToUser
        THEN /\ Len(out) = 1
             /\ out[1].name = last.op
             /\ out[1].rcpt = RoomMates(last.sock) \ {last.sock}
        ELSE \A e \in Events : e.rcpt = {}

\* C18, as a step: a join-room refused by a full room, or a private-message
\* to an unbound identity, emits only an error event to its caller, and
\* every other connection stays connected, keeps its binding and its
\* memberships.
C18_Step ==
    LET s == last'.sock
    IN (last'.op \in {"join", "pm"} /\ ~last'.ok) =>
        /\ \A e \in EventsNext : e.name = "error" /\ e.rcpt \subseteq {s}
        /\ \A c \in Sockets \ {s} :
              /\ c \in connected => c \in connected'
              /\ c \in DOMAIN socketToUser =>
                    c \in DOMAIN socketToUser' /\ socketToUser'[c] = socketToUser[c]
              /\ \A u \in DOMAIN userToSocket :
                    userToSocket[u] = c =>
                       u \in DOMAIN userToSocket' /\ userToSocket'[u] = c
              /\ \A R \in DOMAIN rooms :
                    c \in rooms[R].participants <=> c \in rooms'[R].participants

\* C18: a failed request affects nobody but its caller.
C18_FailureIsLocal == [][C18_Step]_vars

\* C19: a room is flagged inactive exactly when its member set is empty.
C19_ActiveIffOccupied ==
    \A R \in DOMAIN rooms : ~rooms[R].isActive <=> rooms[R].participants = {}

\* C20, as a step: the grace timer of connection c that fires while its
\* identity is bound to another connection leaves every room, the
\* Participant registry, both identity maps and the activity timestamps as
\* they were, and emits nothing.
C20_Step ==
    LET bound == MapGet(userToSocket, last'.user)
    IN (last'.op = "grace" /\ bound # 0 /\ bound # last'.sock) =>
        /\ UNCHANGED <<rooms, participants, socketToUser, userToSocket,
                       userLastActivity>>
        /\ out' = <<>>

\* C20, the consequence: no grace timer erases the binding of an identity to
\* a connection other than the timer's own.
C20_KeepsNewer ==
    \A u \in DOMAIN userToSocket :
        (last'.op = "grace" /\ userToSocket[u] # last'.sock) =>
            /\ u \in DOMAIN userToSocket' /\ userToSocket'[u] = userToSocket[u]
            /\ u \in userLastActivity => u \in userLastActivity'

\* C20: a superseded grace timer changes nothing, so it never erases the
\* binding a newer join installed.
C20_SupersededTimerNoOp == [][C20_Step /\ C20_KeepsNewer]_vars

\* a grace timer fired while its identity was bound to a newer, live
\* connection and its own connection was still in the room's member set
C20_Witness ==
    /\ last.op = "grace" /\ ~last.removed
    /\ last.user \in DOMAIN userToSocket
    /\ userToSocket[last.user] \in connected \ {last.sock}
    /\ last.user \in userLastActivity
    /\ last.sock \in rooms[Upper(last.code)].participants

\* C21, as a step: the sweep deletes exactly the rooms that are empty and
\* inactive and leaves the other rooms, the Participant registry and the
\* identity maps as they were; no other step deletes a room; and a deleted
\* room had no member.
C21_Step ==
    /\ last'.op = "sweep" =>
          /\ DOMAIN rooms' =
                {R \in DOMAIN rooms :
                    ~(rooms[R].participants = {} /\ ~rooms[R].isActive)}
          /\ \A R \in DOMAIN rooms' : rooms'[R] = rooms[R]
          /\ UNCHANGED <<participants, socketToUser, userToSocket,
                         userLastActivity>>
    /\ last'.op # "sweep" => DOMAIN rooms \subseteq DOMAIN rooms'
    /\ \A R \in DOMAIN rooms :
          R \notin DOMAIN rooms' => rooms[R].participants = {}

\* C21: only the sweep removes rooms, and it removes exactly the empty
\* inactive ones.
C21_SweepOnly == [][C21_Step]_vars

\* a sweep deleted a room while another room, with a member, stayed
C21_Witness ==
    /\ last.op = "sweep"
    /\ \E R \in DOMAIN rooms : rooms[R].participants # {}

\* C22, as a step: removeParticipant called by a grace timer for a handle
\* that is not in the member set of the timer's room leaves that room and
\* the Participant registry as they were and returns the size of the member
\* set.
C22_Step ==
    LET c == last'.sock
        R == Upper(last'.code)
    IN (/\ last'.op = "grace" /\ last'.removed /\ ~last'.stale
        /\ c \notin rooms[R].participants)
       => /\ rooms'[R] = rooms[R]
          /\ participants' = participants
          /\ out'[2].count = Cardinality(rooms[R].participants)

\* C22: removing a handle that is not a member changes nothing.
C22_RemoveAbsentNoOp == [][C22_Step]_vars

\* the rooms whose member set holds connection c
RoomsOf(c) == {R \in DOMAIN rooms : c \in rooms[R].participants}

\* C23: a Participant record keyed by c exists exactly when c is in some
\* room's member set, and its roomCode is the code of the room holding c.
C23_RegistryAgrees ==
    \A c \in Sockets :
        /\ c \in DOMAIN participants <=> RoomsOf(c) # {}
        /\ c \in DOMAIN participants => RoomsOf(c) = {participants[c].roomCode}

\* C25: no connection handle is in the member set of two rooms.
C25_OneRoomPerHandle ==
    \A c \in Sockets : Cardinality(RoomsOf(c)) <= 1

\* C24: every participants-update carries the size of the room's member set
\* as its count, a roster of that length, and in every roster entry an
\* identity a member joined under, never the placeholder.
C24_CountAndRoster ==
    \A e \in Updates :
        /\ e.count = Cardinality(e.list)
        /\ Upper(e.group) \in DOMAIN rooms =>
              e.count = Cardinality(rooms[Upper(e.group)].participants)
        /\ \A x \in e.list : x.userEmail \in Users

\* C26: every connection that has disconnected is eventually in no room's
\* member set.
C26_DeadLeaves ==
    \A c \in Sockets : (Dead(c) /\ RoomsOf(c) # {}) ~> (RoomsOf(c) = {})

\* the keys rooms are stored under
RoomKeys == {Upper(c) : c \in RawCodes}

\* room R is in the registry, none of its members is a live connection, and
\* the last request was not a join-room for it
Abandoned(R) ==
    /\ R \in DOMAIN rooms
    /\ rooms[R].participants \cap connected = {}
    /\ ~(last.op = "join" /\ Upper(last.code) = R)

\* C28: no room stays in the registry forever without a live member and
\* without being joined again.
C28_AbandonedRoomSwept ==
    \A R \in RoomKeys : ~<>[]Abandoned(R)

\* C27: a grace timer emits user-left and participants-update only if its
\* connection was in the room's member set when it fired; so the timer of a
\* connection that a full room refused, and that is in no member set, emits
\* nothing.
C27_LeftOnlyForMembers ==
    (last.op = "grace" /\ out # <<>>) => last.sock \in last.before

\* C29, one step: a join-room under identity v disconnects, or takes out of
\* socketToUser, only a connection that socketToUser bound to v.
C29_Step ==
    \A c \in Sockets :
        (/\ last'.op = "join"
         /\ \/ (c \in connected /\ c \notin connected')
            \/ (c \in DOMAIN socketToUser /\ c \notin DOMAIN socketToUser'))
        => (c \in DOMAIN socketToUser
            /\ socketToUser[c].userEmail = last'.user)

\* C29: a join-room by a connection with identity v disconnects or unbinds
\* only a connection bound to v in socketToUser; it never terminates a live
\* connection that is bound to a different identity.
C29_EvictsOwnIdentityOnly == [][C29_Step]_vars

====
